---- MODULE Spec2Model ----
(***************************************************************************)
(* ValetudoCamera (custom_components/valetudo_vacuum_camera/camera.py):    *)
(* the map update and snapshot pipeline.  One camera object, the MQTT     *)
(* connector it polls, and the files it reads and writes.                  *)
(*                                                                         *)
(* Python values are modelled as follows.  Objects (bitmaps, PNG bytes,    *)
(* parsed payloads, attribute values, files) are records with a "kind"     *)
(* field; Python None is the record None; an attribute that has not been   *)
(* assigned yet is NoAttr (reading it raises AttributeError).  The three   *)
(* fields that hold strings or booleans hold strings here: "None",         *)
(* "NoAttr", "True", "False" and the status and outcome strings.           *)
(***************************************************************************)
EXTENDS Integers, FiniteSets, Sequences, TLC

VARIABLES
    phase,              \* "new" before __init__, "ready" after it, "failed" if it raised
    image,              \* self._image: the encoded PNG (lastEncodedImage)
    last_image,         \* self._last_image: the decoded bitmap (lastDecodedBitmap)
    snapshot_taken,     \* self._snapshot_taken
    vacuum_state,       \* self._vacuum_state (robotStatus)
    vac_json_data,      \* self._vac_json_data: ingestion outcome
    vac_json_id,        \* self._vac_json_id: map-data id
    base,               \* self._base: charger position
    current,            \* self._current: robot position
    vac_img_data,       \* self._vac_img_data: image size
    calibration_points, \* self._calibration_points
    image_rotate,       \* self._image_rotate (configuration)
    image_crop,         \* self._image_crop (configuration)
    should_poll,        \* self._should_poll
    mqtt_running,       \* connector: started (client_start) or stopped (client_stop)
    cwd_is_config,      \* whether the process runs with /config as working directory
    disk,               \* the files of the snapshot store
    op,                 \* the last operation and, for update(), the path it took
    ret,                \* the value the last update() or camera_image() returned
    write,              \* the last update(): snapshot write "no", "ok" or "ioerror"
    attempts,           \* snapshot write attempts so far (saturates at MaxAttempts)
    seen_terminal,      \* an update() has read a terminal status from the connector
    status_read,        \* what get_vacuum_status() answered when update() last called it
    raised,             \* the last __init__ or update() raised to its caller
    loads               \* loads of the snapshot file so far (saturates at MaxLoads)

vars == <<phase, image, last_image, snapshot_taken, vacuum_state, vac_json_data,
          vac_json_id, base, current, vac_img_data, calibration_points,
          image_rotate, image_crop, should_poll, mqtt_running, cwd_is_config, disk, op, ret, write,
          attempts, seen_terminal, status_read, raised, loads>>

---------------------------------------------------------------------------
\* Bounds of the model.
MaxPayload == 2
MaxAttempts == 2
MaxLoads == 2

\* Program constants.
PlaceholderWidth == 800
PlaceholderHeight == 600

---------------------------------------------------------------------------
\* Values.
None == [kind |-> "None"]
NoAttr == [kind |-> "NoAttr"]
NoFile == [kind |-> "NoFile"]
ValueError == [kind |-> "ValueError"]

Payload(i, r) == [kind |-> "json", id |-> i, renderable |-> r]
Payloads == {Payload(i, r) : i \in 1..MaxPayload, r \in BOOLEAN}
\* update_data(): raises ValueError, returns None, or returns the parsed payload.
Fetchable == {ValueError, None} \cup Payloads

Terminal == {"idle", "docked", "error"}
Statuses == Terminal \cup {"cleaning", "None"}

Rotations == {0, 90}
Crops == {50}

\* Where the failure happens in the snapshot block, if any.
IOOutcomes == {"ok", "save_payload", "json", "png"}

\* The bitmap a previous run of the program left on disk.
OldSnapshot == [kind |-> "map", id |-> 0, crop |-> 0, rot |-> 0]

\* Image.new("RGB", (800, 600), "gray")
Placeholder ==
    [kind |-> "RGB", w |-> PlaceholderWidth, h |-> PlaceholderHeight, color |-> "gray"]

\* pil_img.save(buffered, format="PNG"); buffered.getvalue()
PNG(bitmap) == [kind |-> "png", bitmap |-> bitmap]
\* Image.open(path) on a file holding PNG bytes
ImageOpen(file) == file.bitmap
\* pil_img.rotate(angle)
rotate(bitmap, angle) == [bitmap EXCEPT !.rot = (@ + angle) % 360]
\* json.dumps(parsed_json, indent=4)
Dumps(p) == [kind |-> "text", id |-> p.id]

\* MapImageHandler (valetudo/image_handler.py)
get_image_from_json(p, crop) ==
    IF p.renderable THEN [kind |-> "map", id |-> p.id, crop |-> crop, rot |-> 0]
    ELSE None
get_json_id(p) == [kind |-> "json_id", id |-> p.id]
get_charger_position(p) == [kind |-> "charger", id |-> p.id]
get_robot_position(p) == [kind |-> "robot", id |-> p.id]
get_img_size(p) == [kind |-> "size", id |-> p.id]
get_calibration_data(p, rot) == [kind |-> "calibration", id |-> p.id, rot |-> rot]

\* ValetudoConnector.save_payload(): the connector writes the raw payload it
\* holds (the camera passes it nothing)
RawPayload == [kind |-> "raw"]

\* The files.  The snapshot is read from an absolute path under /config and
\* written to a path relative to the working directory.
Files == {"cfg_png", "cwd_png", "cwd_json", "payload"}
SnapshotLoadPath == "cfg_png"
SnapshotWritePath(cwdcfg) == IF cwdcfg THEN "cfg_png" ELSE "cwd_png"
JsonWritePath == "cwd_json"
isfile(d, path) == d[path] # NoFile

---------------------------------------------------------------------------
\* The object's fields as one record.
Self ==
    [image |-> image, last_image |-> last_image, snapshot_taken |-> snapshot_taken,
     vacuum_state |-> vacuum_state, vac_json_data |-> vac_json_data,
     vac_json_id |-> vac_json_id, base |-> base, current |-> current,
     vac_img_data |-> vac_img_data, calibration_points |-> calibration_points,
     image_rotate |-> image_rotate, image_crop |-> image_crop]

SetSelf(s) ==
    /\ image' = s.image
    /\ last_image' = s.last_image
    /\ snapshot_taken' = s.snapshot_taken
    /\ vacuum_state' = s.vacuum_state
    /\ vac_json_data' = s.vac_json_data
    /\ vac_json_id' = s.vac_json_id
    /\ base' = s.base
    /\ current' = s.current
    /\ vac_img_data' = s.vac_img_data
    /\ calibration_points' = s.calibration_points
    /\ image_rotate' = s.image_rotate
    /\ image_crop' = s.image_crop

\* The result of one call of a method: the fields and files after it, the value
\* returned, whether it raised, the path taken, the snapshot write made, and
\* where the fallback took its bitmap from.
Result(s, d, r, path, w) ==
    [self |-> s, disk |-> d, ret |-> r, exc |-> FALSE, path |-> path, write |-> w,
     src |-> "none"]
Raise(s, d, path) ==
    [self |-> s, disk |-> d, ret |-> None, exc |-> TRUE, path |-> path, write |-> "no",
     src |-> "none"]

---------------------------------------------------------------------------
\* ValetudoCamera.empty_if_no_data: the fallback bitmap.  Yields the bitmap
\* returned, the fields after the call, and whether the call raised.
empty_if_no_data_SnapshotFirst(s, d) ==
    IF isfile(d, SnapshotLoadPath)
    THEN LET loaded == ImageOpen(d[SnapshotLoadPath])
         IN  [exc |-> FALSE, img |-> loaded, src |-> "disk",
              self |-> [s EXCEPT !.last_image = loaded]]
    ELSE IF s.last_image # None
         THEN [exc |-> FALSE, img |-> s.last_image, src |-> "memory", self |-> s]
         ELSE [exc |-> FALSE, img |-> Placeholder, src |-> "placeholder", self |-> s]

empty_if_no_data(s, d) ==
    IF isfile(d, SnapshotLoadPath) /\ s.last_image = NoAttr
    THEN [exc |-> TRUE, img |-> None, src |-> "none", self |-> s]
    ELSE IF isfile(d, SnapshotLoadPath) /\ s.last_image = None
    THEN LET loaded == ImageOpen(d[SnapshotLoadPath])
         IN  [exc |-> FALSE, img |-> loaded, src |-> "disk",
              self |-> [s EXCEPT !.last_image = loaded]]
    ELSE IF s.last_image = NoAttr
    THEN [exc |-> TRUE, img |-> None, src |-> "none", self |-> s]
    ELSE IF s.last_image # None
    THEN [exc |-> FALSE, img |-> s.last_image, src |-> "memory", self |-> s]
    ELSE [exc |-> FALSE, img |-> Placeholder, src |-> "placeholder", self |-> s]

\* except ValueError: the parse failed.
OnValueError_DropsImage(s) ==
    [s EXCEPT !.vac_json_data = "Error", !.last_image = None, !.image = None]

OnValueError(s) == [s EXCEPT !.vac_json_data = "Error"]

\* The snapshot decision: not self._snapshot_taken and the stored status is
\* idle, docked or error.  (not x is true of False and of None.)
SnapshotDue_AnyStatus(s) == s.snapshot_taken # "True"

SnapshotDue_IgnoresFlag(s) == s.vacuum_state \in Terminal

SnapshotDue_DockedOnly(s) ==
    s.snapshot_taken # "True" /\ s.vacuum_state = "docked"

SnapshotDue(s) ==
    s.snapshot_taken # "True" /\ s.vacuum_state \in Terminal

\* except IOError: the write failed.
OnIOError(s) == [s EXCEPT !.snapshot_taken = "None"]

\* The snapshot block: the flag, then the connector's payload, the JSON text and
\* the bitmap, in this order; io names the write that raises IOError, if any.
\* The block catches the IOError: nothing leaves it (exc).
take_snapshot_Uncaught(s, d, p, pil, cwdcfg, io) ==
    LET s1 == [s EXCEPT !.snapshot_taken = "True"]
        d1 == [d EXCEPT !["payload"] = RawPayload]
        d2 == [d1 EXCEPT ![JsonWritePath] = Dumps(p)]
        d3 == [d2 EXCEPT ![SnapshotWritePath(cwdcfg)] = PNG(pil)]
    IN  CASE io = "save_payload" ->
               [self |-> s1, disk |-> d, write |-> "ioerror", exc |-> TRUE]
          [] io = "json" ->
               [self |-> s1, disk |-> d1, write |-> "ioerror", exc |-> TRUE]
          [] io = "png" ->
               [self |-> s1, disk |-> d2, write |-> "ioerror", exc |-> TRUE]
          [] OTHER ->
               [self |-> s1, disk |-> d3, write |-> "ok", exc |-> FALSE]

take_snapshot_BitmapFirst(s, d, p, pil, cwdcfg, io) ==
    LET s1 == [s EXCEPT !.snapshot_taken = "True"]
        d1 == [d EXCEPT !["payload"] = RawPayload]
        d2 == [d1 EXCEPT ![SnapshotWritePath(cwdcfg)] = PNG(pil)]
        d3 == [d2 EXCEPT ![JsonWritePath] = Dumps(p)]
    IN  CASE io = "save_payload" ->
               [self |-> OnIOError(s1), disk |-> d, write |-> "ioerror", exc |-> FALSE]
          [] io = "png" ->
               [self |-> OnIOError(s1), disk |-> d1, write |-> "ioerror", exc |-> FALSE]
          [] io = "json" ->
               [self |-> OnIOError(s1), disk |-> d2, write |-> "ioerror", exc |-> FALSE]
          [] OTHER ->
               [self |-> s1, disk |-> d3, write |-> "ok", exc |-> FALSE]

take_snapshot(s, d, p, pil, cwdcfg, io) ==
    LET s1 == [s EXCEPT !.snapshot_taken = "True"]
        d1 == [d EXCEPT !["payload"] = RawPayload]
        d2 == [d1 EXCEPT ![JsonWritePath] = Dumps(p)]
        d3 == [d2 EXCEPT ![SnapshotWritePath(cwdcfg)] = PNG(pil)]
    IN  CASE io = "save_payload" ->
               [self |-> OnIOError(s1), disk |-> d, write |-> "ioerror", exc |-> FALSE]
          [] io = "json" ->
               [self |-> OnIOError(s1), disk |-> d1, write |-> "ioerror", exc |-> FALSE]
          [] io = "png" ->
               [self |-> OnIOError(s1), disk |-> d2, write |-> "ioerror", exc |-> FALSE]
          [] OTHER ->
               [self |-> s1, disk |-> d3, write |-> "ok", exc |-> FALSE]

\* The derived attributes, read from the renderer after a render.
derived_attributes_NoCalibration(s, p) ==
    [s EXCEPT !.vac_json_id = get_json_id(p),
              !.base = get_charger_position(p),
              !.current = get_robot_position(p),
              !.vac_img_data = get_img_size(p)]

derived_attributes(s, p) ==
    [s EXCEPT !.vac_json_id = get_json_id(p),
              !.base = get_charger_position(p),
              !.current = get_robot_position(p),
              !.vac_img_data = get_img_size(p),
              !.calibration_points = get_calibration_data(p, s.image_rotate)]

\* Converting the image obtained to bytes, then reading the status.
encode_and_store_StaleStatus(s, pil, status) ==
    [s EXCEPT !.last_image = pil, !.image = PNG(pil)]

encode_and_store_StaleBitmap(s, pil, status) ==
    [s EXCEPT !.image = PNG(pil), !.vacuum_state = status]

encode_and_store(s, pil, status) ==
    [s EXCEPT !.last_image = pil, !.image = PNG(pil), !.vacuum_state = status]

\* ValetudoCamera.update.  avail, data and status are what the connector
\* answers; the value returned is None where the method falls off its end.
update(s, d, avail, data, status, cwdcfg, io) ==
    IF ~avail
    THEN Result(s, d, None, "nodata", "no")
    ELSE IF data = ValueError
    THEN Result(OnValueError(s), d, None, "parse_error", "no")
    ELSE LET s1 == [s EXCEPT !.vac_json_data = "Success"] IN
    IF data = None
    THEN IF s1.image = NoAttr
         THEN Raise(s1, d, "no_json")
         ELSE Result(s1, d, s1.image, "no_json", "no")
    ELSE LET pil0 == get_image_from_json(data, s1.image_crop) IN
    IF pil0 # None
    THEN LET pil == rotate(pil0, s1.image_rotate) IN
         IF s1.snapshot_taken = "NoAttr"
         THEN Raise(s1, d, "render")
         ELSE LET snap == IF SnapshotDue(s1)
                          THEN take_snapshot(s1, d, data, pil, cwdcfg, io)
                          ELSE [self |-> s1, disk |-> d, write |-> "no", exc |-> FALSE]
                  s2 == derived_attributes(snap.self, data)
                  s3 == encode_and_store(s2, pil, status)
              IN  IF snap.exc
                  THEN [Raise(snap.self, snap.disk, "render") EXCEPT !.write = snap.write]
                  ELSE Result(s3, snap.disk, s3.image, "render", snap.write)
    ELSE LET fb == empty_if_no_data(s1, d) IN
         IF fb.exc
         THEN Raise(fb.self, d, "fallback")
         ELSE LET s3 == encode_and_store(fb.self, fb.img, status)
              IN  [Result(s3, d, s3.image, "fallback", "no") EXCEPT !.src = fb.src]

---------------------------------------------------------------------------
\* What the connector and the file system answer during one update(): whether
\* data is available, what update_data() yields, the status the connector
\* reports, and which write of the snapshot block fails.  An answer that the
\* call never asks for (the payload without data, the status without an image,
\* the write without a snapshot) has one value only.
Inputs(s) ==
    {[avail |-> FALSE, data |-> None, status |-> "None", io |-> "ok"]}
    \cup {[avail |-> TRUE, data |-> x, status |-> "None", io |-> "ok"] :
             x \in {ValueError, None}}
    \cup {[avail |-> TRUE, data |-> x, status |-> st, io |-> "ok"] :
             x \in Payloads, st \in Statuses}
    \cup {[avail |-> TRUE, data |-> x, status |-> st, io |-> io] :
             x \in {y \in Payloads : y.renderable /\ SnapshotDue(s)},
             st \in Statuses, io \in IOOutcomes}

Min(a, b) == IF a < b THEN a ELSE b

\* Before __init__ runs: the configuration, the connector and the files are
\* given; the fields assigned before line 118 hold None; _image,
\* _snapshot_taken and _last_image are not assigned yet.
Init ==
    /\ phase = "new"
    /\ image = NoAttr
    /\ last_image = NoAttr
    /\ snapshot_taken = "NoAttr"
    /\ vacuum_state = "None"
    /\ vac_json_data = "None"
    /\ vac_json_id = None
    /\ base = None
    /\ current = None
    /\ vac_img_data = None
    /\ calibration_points = None
    /\ image_rotate \in Rotations
    /\ image_crop \in Crops
    /\ should_poll = FALSE
    /\ mqtt_running = TRUE
    /\ cwd_is_config \in BOOLEAN
    /\ disk \in {[f \in Files |-> NoFile],
                 [f \in Files |-> IF f = SnapshotLoadPath THEN PNG(OldSnapshot) ELSE NoFile]}
    /\ op = "none"
    /\ ret = None
    /\ write = "no"
    /\ attempts = 0
    /\ seen_terminal = FALSE
    /\ status_read = "None"
    /\ raised = FALSE
    /\ loads = 0

\* ValetudoCamera.__init__: self._image = self.update(), then the snapshot
\* flag, the cached bitmap and the polling flag.
Construct ==
    /\ phase = "new"
    /\ \E in \in Inputs(Self) :
       \E r \in {update(Self, disk, in.avail, in.data, in.status, cwd_is_config, in.io)} :
           /\ IF r.exc
              THEN /\ phase' = "failed"
                   /\ SetSelf(r.self)
                   /\ should_poll' = should_poll
              ELSE /\ phase' = "ready"
                   /\ SetSelf([r.self EXCEPT !.image = r.ret,
                                             !.snapshot_taken = "False",
                                             !.last_image = None])
                   /\ should_poll' = TRUE
           /\ disk' = r.disk
           /\ ret' = r.ret
           /\ write' = r.write
           /\ raised' = r.exc
    /\ op' = "construct"
    /\ UNCHANGED <<mqtt_running, cwd_is_config, attempts, seen_terminal, status_read,
                   loads>>

\* One poll tick: the scheduler calls update() while should_poll is true.
UpdateCycle ==
    /\ phase = "ready"
    /\ should_poll
    /\ \E in \in Inputs(Self) :
          \E r \in {update(Self, disk, in.avail, in.data, in.status, cwd_is_config, in.io)} :
              /\ SetSelf(r.self)
              /\ disk' = r.disk
              /\ ret' = r.ret
              /\ op' = r.path
              /\ write' = r.write
              /\ raised' = r.exc
              /\ status_read' = IF ~r.exc /\ r.path \in {"render", "fallback"}
                                THEN in.status ELSE status_read
              /\ loads' = IF r.src = "disk" THEN Min(loads + 1, MaxLoads) ELSE loads
              /\ attempts' = IF r.write = "no" THEN attempts
                             ELSE Min(attempts + 1, MaxAttempts)
              /\ seen_terminal' = (seen_terminal \/
                    (r.path \in {"render", "fallback"} /\ in.status \in Terminal))
    /\ UNCHANGED <<phase, should_poll, mqtt_running, cwd_is_config>>

\* ValetudoCamera.camera_image
CameraImage_CallsUpdate ==
    /\ phase = "ready"
    /\ ret' = update(Self, disk, FALSE, None, "None", cwd_is_config, "ok").ret
    /\ op' = "camera_image"
    /\ UNCHANGED <<phase, image, last_image, snapshot_taken, vacuum_state,
                   vac_json_data, vac_json_id, base, current, vac_img_data,
                   calibration_points, image_rotate, image_crop, should_poll,
                   mqtt_running, cwd_is_config,
                   disk, write, attempts, seen_terminal, status_read, raised, loads>>

CameraImage ==
    /\ phase = "ready"
    /\ ret' = image
    /\ op' = "camera_image"
    /\ UNCHANGED <<phase, image, last_image, snapshot_taken, vacuum_state,
                   vac_json_data, vac_json_id, base, current, vac_img_data,
                   calibration_points, image_rotate, image_crop, should_poll,
                   mqtt_running, cwd_is_config,
                   disk, write, attempts, seen_terminal, status_read, raised, loads>>

\* ValetudoCamera.turn_on
TurnOn ==
    /\ phase = "ready"
    /\ mqtt_running' = TRUE
    /\ should_poll' = TRUE
    /\ op' = "turn_on"
    /\ UNCHANGED <<phase, image, last_image, snapshot_taken, vacuum_state,
                   vac_json_data, vac_json_id, base, current, vac_img_data,
                   calibration_points, image_rotate, image_crop,
                   cwd_is_config, disk, ret, write,
                   attempts, seen_terminal, status_read, raised, loads>>

\* ValetudoCamera.turn_off
TurnOff_KeepsPolling ==
    /\ phase = "ready"
    /\ mqtt_running' = FALSE
    /\ should_poll' = should_poll
    /\ op' = "turn_off"
    /\ UNCHANGED <<phase, image, last_image, snapshot_taken, vacuum_state,
                   vac_json_data, vac_json_id, base, current, vac_img_data,
                   calibration_points, image_rotate, image_crop,
                   cwd_is_config, disk, ret, write,
                   attempts, seen_terminal, status_read, raised, loads>>

TurnOff ==
    /\ phase = "ready"
    /\ mqtt_running' = FALSE
    /\ should_poll' = FALSE
    /\ op' = "turn_off"
    /\ UNCHANGED <<phase, image, last_image, snapshot_taken, vacuum_state,
                   vac_json_data, vac_json_id, base, current, vac_img_data,
                   calibration_points, image_rotate, image_crop,
                   cwd_is_config, disk, ret, write,
                   attempts, seen_terminal, status_read, raised, loads>>

Next ==
    \/ Construct
    \/ UpdateCycle
    \/ CameraImage
    \/ TurnOn
    \/ TurnOff

Spec == Init /\ [][Next]_vars

\* The service restarts: the camera object is gone and a new one is about to be
\* constructed with the same configuration; the files stay.
Restart ==
    /\ phase \in {"ready", "failed"}
    /\ phase' = "new"
    /\ image' = NoAttr
    /\ last_image' = NoAttr
    /\ snapshot_taken' = "NoAttr"
    /\ vacuum_state' = "None"
    /\ vac_json_data' = "None"
    /\ vac_json_id' = None
    /\ base' = None
    /\ current' = None
    /\ vac_img_data' = None
    /\ calibration_points' = None
    /\ should_poll' = FALSE
    /\ mqtt_running' = TRUE
    /\ op' = "restart"
    /\ ret' = None
    /\ write' = "no"
    /\ attempts' = 0
    /\ seen_terminal' = FALSE
    /\ status_read' = "None"
    /\ raised' = FALSE
    /\ loads' = 0
    /\ UNCHANGED <<image_rotate, image_crop, cwd_is_config, disk>>

NextRestart ==
    \/ Next
    \/ Restart

SpecRestart == Init /\ [][NextRestart]_vars

---------------------------------------------------------------------------
\* Properties.

Ready == phase = "ready"

\* The derived attributes: map-data id, charger position, robot position,
\* image size and calibration points.
Attrs == <<vac_json_id, base, current, vac_img_data, calibration_points>>

\* What the renderer reports for payload p under the configured rotation.
RendererAttrs(p) ==
    <<get_json_id(p), get_charger_position(p), get_robot_position(p),
      get_img_size(p), get_calibration_data(p, image_rotate)>>

\* The paths of update().
UpdateOps == {"nodata", "parse_error", "no_json", "render", "fallback"}

\* C1: over the lifetime of one camera at most one snapshot write is attempted,
\* whatever statuses follow and whether the first attempt succeeded or failed.
C1_SingleWriteAttempt == attempts <= 1

\* C2: snapshotTaken is false or true, and once a write has been attempted (the
\* flag was set true) it is true in every later state.
C2_SnapshotTakenMonotonic ==
    Ready => /\ snapshot_taken \in {"False", "True"}
             /\ (attempts > 0 => snapshot_taken = "True")

\* C3: a cycle in which the connector has no new data returns the cached encoded
\* image and changes neither a field nor a file.
C3_NoDataReturnsCached ==
    [][(Ready /\ op' = "nodata") =>
          /\ ret' = image
          /\ UNCHANGED <<image, last_image, snapshot_taken, vacuum_state,
                         vac_json_data, Attrs, disk>>]_vars

\* C4: once constructed, the camera always holds an image and update() and
\* camera_image() always return one; while no payload has been fetched the
\* image is the encoded 800x600 placeholder and the ingestion outcome is unset.
C4_NeverNoImage ==
    Ready => /\ image # None
             /\ (op \in UpdateOps \cup {"camera_image"} => ret # None)
             /\ (vac_json_data = "None" => image = PNG(Placeholder))

\* C5: a cycle whose fetch raises the parse error leaves the derived attributes,
\* snapshotTaken, robotStatus, the encoded image, the decoded bitmap and the
\* files as they were, and attempts no snapshot write.
C5_ParseErrorFrame ==
    [][(Ready /\ op' = "parse_error") =>
          /\ UNCHANGED <<Attrs, snapshot_taken, vacuum_state, image, last_image, disk>>
          /\ write' = "no"
          /\ attempts' = attempts
          /\ vac_json_data' = "Error"]_vars

C5_Witness ==
    /\ Ready
    /\ op = "parse_error"
    /\ vac_json_data = "Error"
    /\ vac_json_id # None
    /\ image # None
    /\ snapshot_taken = "True"

\* C6: on a camera that already holds an image, a cycle with a malformed payload
\* sets the ingestion outcome to "Error" and update() returns the image the
\* previous cycle produced.
C6_ParseErrorReturnsPrevious ==
    [][(Ready /\ op' = "parse_error" /\ image # None) =>
          /\ vac_json_data' = "Error"
          /\ ret' = image]_vars

\* C7 as claimed: the render cycle in which the connector reports a terminal
\* status for the first time attempts the snapshot write and ends with
\* snapshotTaken true.
C7_FirstTerminalWritesSameCycle ==
    [][(Ready /\ op' = "render" /\ ~seen_terminal /\ vacuum_state' \in Terminal) =>
          /\ write' # "no"
          /\ snapshot_taken' = "True"]_vars

\* C7 as amended: the render cycle that first reads a terminal status attempts
\* no write and leaves snapshotTaken false; the write is attempted by the render
\* cycle that starts with a terminal status stored and snapshotTaken false, and
\* that cycle ends with snapshotTaken no longer false (true when the write
\* succeeded).
C7_WriteOnCycleAfterTerminalRead ==
    [][(Ready /\ op' = "render") =>
          /\ (snapshot_taken = "False" /\ vacuum_state \in Terminal) =>
                /\ write' # "no"
                /\ attempts' = Min(attempts + 1, MaxAttempts)
                /\ snapshot_taken' # "False"
                /\ (write' = "ok" => snapshot_taken' = "True")
          /\ (~seen_terminal /\ vacuum_state' \in Terminal) =>
                /\ write' = "no"
                /\ snapshot_taken' = "False"]_vars

C7_Witness ==
    /\ Ready
    /\ op = "render"
    /\ write = "ok"
    /\ snapshot_taken = "True"
    /\ attempts = 1

\* C8 as claimed: a render cycle during which the connector's status is not
\* terminal writes no snapshot and leaves snapshotTaken false, whatever the
\* status was on earlier cycles.
C8_NonTerminalStatusNoWrite ==
    [][(Ready /\ op' = "render" /\ snapshot_taken = "False"
          /\ vacuum_state' \notin Terminal) =>
          /\ write' = "no"
          /\ snapshot_taken' = "False"
          /\ disk' = disk]_vars

\* C8 as amended: a render cycle that starts with a non-terminal status stored
\* updates the image, writes no file and leaves snapshotTaken as it was,
\* whatever status the connector reports during the cycle.
C8_StoredNonTerminalNoWrite ==
    [][(Ready /\ op' = "render" /\ vacuum_state \notin Terminal) =>
          /\ write' = "no"
          /\ disk' = disk
          /\ snapshot_taken' = snapshot_taken
          /\ attempts' = attempts
          /\ last_image'.kind = "map"
          /\ image' = PNG(last_image')
          /\ ret' = image']_vars

C8_Witness ==
    /\ Ready
    /\ op = "render"
    /\ write = "no"
    /\ snapshot_taken = "False"
    /\ vacuum_state = "docked"
    /\ image # None

\* The bitmap the fallback is to choose: the one in memory, else the durable
\* snapshot, else the placeholder.
FallbackChoice(mem, d) ==
    IF mem # None THEN mem
    ELSE IF isfile(d, SnapshotLoadPath) THEN ImageOpen(d[SnapshotLoadPath])
    ELSE Placeholder

\* C9: in every state of a constructed camera the fallback yields a bitmap, and
\* it is the bitmap in memory if there is one, else the durable snapshot if the
\* file exists (which it then caches), else the 800x600 placeholder; a fallback
\* cycle encodes that bitmap.
C9_FallbackPriority ==
    Ready =>
       LET r == empty_if_no_data(Self, disk)
       IN  /\ ~r.exc
           /\ r.img # None
           /\ r.img = FallbackChoice(last_image, disk)
           /\ (last_image = None /\ isfile(disk, SnapshotLoadPath)) =>
                 r.self.last_image = ImageOpen(disk[SnapshotLoadPath])
           /\ (last_image = None /\ ~isfile(disk, SnapshotLoadPath)) =>
                 (r.img.w = PlaceholderWidth /\ r.img.h = PlaceholderHeight)
           /\ op = "fallback" => (last_image # None /\ image = PNG(last_image))

C9_Witness ==
    /\ Ready
    /\ op = "fallback"
    /\ last_image = OldSnapshot
    /\ image = PNG(OldSnapshot)

\* C10: the derived attributes change only on a render cycle, and then all five
\* are the renderer's values for the payload rendered; a fallback cycle leaves
\* them, snapshotTaken and the files as they were and attempts no write.
C10_AttrsGroupOnRender ==
    [][Ready =>
          /\ (Attrs' # Attrs) => op' = "render"
          /\ op' = "render" =>
                \E p \in {q \in Payloads : q.renderable} :
                   /\ Attrs' = RendererAttrs(p)
                   /\ last_image' = rotate(get_image_from_json(p, image_crop), image_rotate)
          /\ op' = "fallback" =>
                /\ Attrs' = Attrs
                /\ write' = "no"
                /\ attempts' = attempts
                /\ snapshot_taken' = snapshot_taken
                /\ disk' = disk]_vars

C10_Witness ==
    /\ Ready
    /\ op = "fallback"
    /\ vac_json_id # None
    /\ calibration_points # None
    /\ last_image.kind = "map"

\* The camera's fields and the files: what update() may change.
Pipeline ==
    <<image, last_image, snapshot_taken, vacuum_state, vac_json_data, Attrs,
      image_rotate, image_crop, disk>>

\* C11: an image read returns the cached encoded image and changes neither a
\* field nor a file nor the count of snapshot writes, so reads that follow one
\* another return the same bytes.
C11_ReadReturnsCached ==
    [][(Ready /\ op' = "camera_image") =>
          /\ ret' = image
          /\ UNCHANGED <<Pipeline, should_poll, mqtt_running, write, attempts,
                         status_read, loads>>
          /\ (op = "camera_image" => ret' = ret)]_vars

C11_Witness ==
    /\ Ready
    /\ op = "camera_image"
    /\ ret = image
    /\ image # None
    /\ image.bitmap.kind = "map"

\* C12: a snapshot write that succeeds leaves snapshotTaken true, and from then
\* on no update() cycle attempts a write, changes a file or changes the flag,
\* whatever statuses the connector reports.
C12_NoWriteAfterSuccess ==
    [][Ready =>
          /\ (op' = "render" /\ write' = "ok") => snapshot_taken' = "True"
          /\ snapshot_taken = "True" =>
                /\ snapshot_taken' = "True"
                /\ disk' = disk
                /\ attempts' = attempts
                /\ (op' \in UpdateOps => write' = "no")]_vars

C12_Witness ==
    /\ Ready
    /\ snapshot_taken = "True"
    /\ attempts = 1
    /\ op = "render"
    /\ write = "no"
    /\ vacuum_state = "error"
    /\ isfile(disk, SnapshotWritePath(cwd_is_config))
    /\ last_image # ImageOpen(disk[SnapshotWritePath(cwd_is_config)])

\* C13: a render cycle attempts the snapshot write exactly when, at its start,
\* snapshotTaken is not true and the status stored by an earlier cycle is
\* terminal, whatever the connector reports during the cycle; the stored status
\* is unset after construction, becomes the connector's answer at the end of
\* every cycle that produces an image, and is left alone by every other cycle.
C13_StatusReadAfterDecision ==
    [][/\ (phase = "new" /\ phase' = "ready") => vacuum_state' = "None"
       /\ (Ready /\ op' = "render") =>
             ((write' # "no") <=> (snapshot_taken # "True" /\ vacuum_state \in Terminal))
       /\ (Ready /\ op' \in {"render", "fallback"}) =>
             (vacuum_state' = status_read' /\ ~raised')
       /\ (Ready /\ op' \notin {"render", "fallback"}) =>
             (vacuum_state' = vacuum_state /\ status_read' = status_read)]_vars

C13_Witness ==
    /\ Ready
    /\ op = "render"
    /\ write = "ok"
    /\ attempts = 1
    /\ vacuum_state = "cleaning"
    /\ status_read = "cleaning"

\* C14: a render cycle whose snapshot write raises IOError does not raise to its
\* caller: it sets the derived attributes from the renderer, stores and encodes
\* the rotated bitmap, refreshes the status and returns the new image; and no
\* update() cycle of a constructed camera raises or ends the camera.
C14_FailedWriteCycleCompletes ==
    [][/\ (Ready /\ op' = "render" /\ write' = "ioerror") =>
             /\ ~raised'
             /\ \E p \in {q \in Payloads : q.renderable} :
                   /\ Attrs' = RendererAttrs(p)
                   /\ last_image' = rotate(get_image_from_json(p, image_crop), image_rotate)
             /\ image' = PNG(last_image')
             /\ ret' = image'
             /\ vacuum_state' = status_read'
       /\ (Ready /\ op' \in UpdateOps) => (phase' = "ready" /\ ~raised')]_vars

C14_Witness ==
    /\ Ready
    /\ op = "render"
    /\ write = "ioerror"
    /\ attempts = 2
    /\ ~raised
    /\ image_rotate = 90
    /\ last_image.rot = 90
    /\ ret = PNG(last_image)
    /\ calibration_points.rot = 90

\* C15: a snapshot is durable across a restart: once this program has written
\* the snapshot bitmap, a freshly constructed camera (nothing cached) whose
\* cycle parses a payload with no renderable map serves the bitmap that was
\* written, i.e. the fallback loads from the location the bitmap was written to.
C15_SnapshotDurableAcrossRestart ==
    [][(/\ Ready
        /\ last_image = None
        /\ isfile(disk, SnapshotWritePath(cwd_is_config))
        /\ disk[SnapshotWritePath(cwd_is_config)] # PNG(OldSnapshot)
        /\ op' = "fallback") =>
             /\ last_image' = ImageOpen(disk[SnapshotWritePath(cwd_is_config)])
             /\ ret' = PNG(last_image')]_vars

\* C16: the placeholder is synthesized and the snapshot file is opened only
\* while _last_image is None; every image-producing cycle leaves _last_image
\* set and nothing unsets it, so a constructed camera opens the snapshot file
\* at most once, never after a render, and never synthesizes a placeholder
\* after a cycle that produced an image.
C16_FallbackSourcesOnlyWhileUnset ==
    [][Ready =>
          /\ (loads' # loads \/ (op' = "fallback" /\ last_image # last_image')) =>
                /\ last_image = None
                /\ op' = "fallback"
                /\ loads = 0
                /\ last_image' = FallbackChoice(last_image, disk)
          /\ (op' \in {"render", "fallback"}) => last_image' # None
          /\ (last_image # None) =>
                /\ last_image' # None
                /\ loads' = loads
                /\ (op' = "fallback" => (last_image' = last_image /\ ret' = PNG(last_image)))
          /\ loads' <= 1]_vars

C16_Witness ==
    /\ Ready
    /\ op = "fallback"
    /\ loads = 1
    /\ isfile(disk, SnapshotLoadPath)
    /\ last_image.kind = "map"
    /\ last_image # ImageOpen(disk[SnapshotLoadPath])
    /\ ret = PNG(last_image)

\* C17: the snapshot write is not atomic.  The connector's payload and the JSON
\* text are written before the bitmap: an attempt that fails leaves the bitmap
\* file as it was, possibly with the payload files already written, the bitmap
\* file changes only in an attempt that wrote both payload files, and no step
\* removes or restores a payload file.
C17_PayloadBeforeBitmapNoRollback ==
    [][Ready =>
          /\ (op' = "render" /\ write' = "ioerror") =>
                disk'[SnapshotWritePath(cwd_is_config)] = disk[SnapshotWritePath(cwd_is_config)]
          /\ (disk'[SnapshotWritePath(cwd_is_config)] # disk[SnapshotWritePath(cwd_is_config)]) =>
                /\ op' = "render"
                /\ write' = "ok"
                /\ disk'["payload"] = RawPayload
                /\ disk'[JsonWritePath].kind = "text"
                /\ disk'[JsonWritePath].id = ImageOpen(disk'[SnapshotWritePath(cwd_is_config)]).id
          /\ \A f \in {"payload", JsonWritePath} :
                /\ isfile(disk, f) => isfile(disk', f)
                /\ (disk'[f] # disk[f]) => (op' = "render" /\ write' # "no")]_vars

C17_Witness ==
    /\ Ready
    /\ op = "render"
    /\ write = "ioerror"
    /\ attempts = 1
    /\ disk["payload"] = RawPayload
    /\ isfile(disk, JsonWritePath)
    /\ disk[JsonWritePath].id = last_image.id
    /\ ~isfile(disk, SnapshotWritePath(cwd_is_config))

\* C18: turn_off leaves should_poll false and the connector's client stopped,
\* turn_on leaves should_poll true and the client started, and neither changes
\* the cached image, the snapshot flag, the derived attributes or the files;
\* as update() is scheduled only while should_poll is true, between a turn_off
\* and the next turn_on no field changes and no snapshot write is attempted.
C18_StopStart ==
    [][Ready =>
          /\ (op' = "turn_off") =>
                /\ ~should_poll' /\ ~mqtt_running'
                /\ UNCHANGED <<Pipeline, ret, write, attempts, status_read, loads>>
          /\ (op' = "turn_on") =>
                /\ should_poll' /\ mqtt_running'
                /\ UNCHANGED <<Pipeline, ret, write, attempts, status_read, loads>>
          /\ (~should_poll) =>
                /\ op' \notin UpdateOps
                /\ UNCHANGED <<Pipeline, write, attempts, status_read, loads>>
                /\ (should_poll' => op' = "turn_on")]_vars

C18_Witness ==
    /\ Ready
    /\ ~should_poll
    /\ ~mqtt_running
    /\ op = "camera_image"
    /\ snapshot_taken = "True"
    /\ attempts = 1
    /\ ret = image
    /\ image # None

\* C19: construction always completes without error whatever the connector
\* reports during it: the update() call made by __init__ never reads
\* _snapshot_taken or _last_image before they are assigned, and the constructed
\* camera starts with _snapshot_taken = False and _last_image = None.
C19_ConstructionCompletes ==
    /\ phase # "failed"
    /\ (op = "construct") =>
          /\ ~raised
          /\ phase = "ready"
          /\ snapshot_taken = "False"
          /\ last_image = None

\* C20: in every state of a constructed camera, between update() cycles, _image
\* and _last_image agree: both are None, or _image is the PNG encoding of
\* exactly the bitmap held in _last_image.
C20_ImageEncodesLastBitmap ==
    Ready =>
       \/ (image = None /\ last_image = None)
       \/ (last_image # None /\ image = PNG(last_image))

C20_Witness ==
    /\ Ready
    /\ op = "fallback"
    /\ last_image = Placeholder
    /\ image = PNG(Placeholder)
    /\ ret = image
    /\ vac_json_data = "Success"

====
